---- MODULE Spec2Model ----
(***************************************************************************)
(* A model of diff2html-cli's src/cli.ts: the git argument builder and     *)
(* input resolver (getInput), the output formatter and template            *)
(* compositor (getOutput, prepareHTML) and the remote publisher            *)
(* (postToDiffy).  Strings are TLA+ strings; documents (templates, HTML    *)
(* fragments) are sequences of tokens, a marker being one token.           *)
(***************************************************************************)
EXTENDS Integers, Sequences, FiniteSets, TLC

VARIABLES
  \* getInput / runGitDiff / generateGitDiffArgs
  inputType, inputArgs, ignore, gitDiffArgs, inPc, inResult,
  \* getOutput / prepareHTML
  colorScheme, config, templateDoc, input, outPc, exitCode, calls,
  outResult, output,
  \* postToDiffy
  diff, diffyOutput, response, dPc, effects, dResult

inVars == <<inputType, inputArgs, ignore, gitDiffArgs, inPc, inResult>>

outVars == <<colorScheme, config, templateDoc, input, outPc, exitCode, calls,
             outResult, output>>

dVars == <<diff, diffyOutput, response, dPc, effects, dResult>>

vars == <<inVars, outVars, dVars>>

----------------------------------------------------------------------------
(* Bounds *)

MaxArgs == 3
MaxIgnore == 2
MaxValLen == 1
MaxExtra == 1

(* Small input alphabets *)
ArgTokens == {"--no-color", "--", "-M", "-C", "HEAD", "a.diff"}
Paths == {"dist", "--"}
DiskFiles == {"a.diff"}

SeqsUpTo(S, n) == UNION {[1..k -> S] : k \in 0..n}

----------------------------------------------------------------------------
(* Array helpers of the JavaScript runtime *)

includes(arr, x) == \E i \in 1..Len(arr) : arr[i] = x

Count(arr, x) == Cardinality({i \in 1..Len(arr) : arr[i] = x})

----------------------------------------------------------------------------
(* Git Argument Builder *)

defaultArgs == <<"-M", "-C", "HEAD">>

excludePathspec(p) == ":(exclude)" \o p

\* variants of the builder, each one slip away from the code
generateGitDiffArgs_AlwaysNoColor(gitArgsArr, ign) ==
  LET a1 == <<"diff", "--no-color">>
      a2 == IF Len(gitArgsArr) = 0 THEN a1 \o defaultArgs ELSE a1
      a3 == a2 \o gitArgsArr
  IN IF Len(ign) > 0
       THEN (IF ~includes(gitArgsArr, "--") THEN Append(a3, "--") ELSE a3)
              \o [i \in 1..Len(ign) |-> excludePathspec(ign[i])]
       ELSE a3

generateGitDiffArgs_DefaultsWithoutNoColor(gitArgsArr, ign) ==
  LET a0 == <<"diff">>
      a2 == IF ~includes(gitArgsArr, "--no-color")
              THEN Append(a0, "--no-color") \o defaultArgs ELSE a0
      a3 == a2 \o gitArgsArr
  IN IF Len(ign) > 0
       THEN (IF ~includes(gitArgsArr, "--") THEN Append(a3, "--") ELSE a3)
              \o [i \in 1..Len(ign) |-> excludePathspec(ign[i])]
       ELSE a3

generateGitDiffArgs_AlwaysSeparator(gitArgsArr, ign) ==
  LET a0 == <<"diff">>
      a1 == IF ~includes(gitArgsArr, "--no-color") THEN Append(a0, "--no-color") ELSE a0
      a2 == IF Len(gitArgsArr) = 0 THEN a1 \o defaultArgs ELSE a1
      a3 == a2 \o gitArgsArr
  IN IF Len(ign) > 0
       THEN Append(a3, "--") \o [i \in 1..Len(ign) |-> excludePathspec(ign[i])]
       ELSE a3

generateGitDiffArgs_ExcludesFirst(gitArgsArr, ign) ==
  LET a0 == <<"diff">>
      a1 == IF ~includes(gitArgsArr, "--no-color") THEN Append(a0, "--no-color") ELSE a0
      a2 == IF Len(gitArgsArr) = 0 THEN a1 \o defaultArgs ELSE a1
      a3 == IF Len(ign) > 0
              THEN (IF ~includes(gitArgsArr, "--") THEN Append(a2, "--") ELSE a2)
                     \o [i \in 1..Len(ign) |-> excludePathspec(ign[i])]
              ELSE a2
  IN a3 \o gitArgsArr

generateGitDiffArgs(gitArgsArr, ign) ==
  LET a0 == <<"diff">>
      a1 == IF ~includes(gitArgsArr, "--no-color") THEN Append(a0, "--no-color") ELSE a0
      a2 == IF Len(gitArgsArr) = 0 THEN a1 \o defaultArgs ELSE a1
      a3 == a2 \o gitArgsArr
      a4 == IF Len(ign) > 0
              THEN (IF ~includes(gitArgsArr, "--") THEN Append(a3, "--") ELSE a3)
                     \o [i \in 1..Len(ign) |-> excludePathspec(ign[i])]
              ELSE a3
  IN a4

----------------------------------------------------------------------------
(* Input Resolver *)

\* case 'file': utils.readFile(inputArgs[0])
GetInputFile ==
  /\ inPc = "start"
  /\ inputType = "file"
  /\ inResult' = IF Len(inputArgs) > 0 /\ inputArgs[1] \in DiskFiles
                   THEN "DiffText" ELSE "ReadError"
  /\ inPc' = "done"
  /\ UNCHANGED <<inputType, inputArgs, ignore, gitDiffArgs>>
  /\ UNCHANGED <<outVars, dVars>>

\* case 'stdin': utils.readStdin()
GetInputStdin ==
  /\ inPc = "start"
  /\ inputType = "stdin"
  /\ inResult' \in {"DiffText", "ReadError"}
  /\ inPc' = "done"
  /\ UNCHANGED <<inputType, inputArgs, ignore, gitDiffArgs>>
  /\ UNCHANGED <<outVars, dVars>>

\* case 'command': runGitDiff(inputArgs, ignore)
runGitDiff ==
  /\ inPc = "start"
  /\ inputType = "command"
  /\ gitDiffArgs' = generateGitDiffArgs(inputArgs, ignore)
  /\ inResult' \in {"DiffText", "ExecutionError"}
  /\ inPc' = "done"
  /\ UNCHANGED <<inputType, inputArgs, ignore>>
  /\ UNCHANGED <<outVars, dVars>>

----------------------------------------------------------------------------
(* Template Compositor *)

lightGitHubTheme == "lightGitHubTheme"
darkGitHubTheme == "darkGitHubTheme"
autoGitHubTheme == "autoGitHubTheme"

lightBaseStyle == "lightBaseStyle"
darkBaseStyle == "darkBaseStyle"
autoBaseStyle == "autoBaseStyle"

TitleMarker == "<!--diff2html-title-->"
CssMarker == "<!--diff2html-css-->"
JsUiMarker == "<!--diff2html-js-ui-->"
FileListToggleMarker == "//diff2html-fileListToggle"
FileContentToggleMarker == "//diff2html-fileContentToggle"
SynchronisedScrollMarker == "//diff2html-synchronisedScroll"
HighlightCodeMarker == "//diff2html-highlightCode"
HeaderMarker == "<!--diff2html-header-->"
DiffMarker == "<!--diff2html-diff-->"
CommitMessageMarker == "<!--diff2html-commit-message-->"

Markers ==
  {TitleMarker, CssMarker, JsUiMarker, FileListToggleMarker,
   FileContentToggleMarker, SynchronisedScrollMarker, HighlightCodeMarker,
   HeaderMarker, DiffMarker, CommitMessageMarker}

\* value.replace(searchValue, () => replaceValue): the first occurrence of
\* searchValue is replaced by replaceValue, inserted as it is
replaceExactly(value, searchValue, replaceValue) ==
  IF ~includes(value, searchValue) THEN value
  ELSE LET i == CHOOSE k \in 1..Len(value) :
                  /\ value[k] = searchValue
                  /\ \A j \in 1..(k - 1) : value[j] # searchValue
       IN SubSeq(value, 1, i - 1) \o replaceValue \o SubSeq(value, i + 1, Len(value))

gitHubThemeFor(cs) ==
  IF cs = "light" THEN lightGitHubTheme
  ELSE IF cs = "dark" THEN darkGitHubTheme ELSE autoGitHubTheme

\* the two ternaries out of step: dark picks the light block
baseStyleFor_DarkAsLight(cs) ==
  IF cs = "light" THEN lightBaseStyle
  ELSE IF cs = "dark" THEN lightBaseStyle ELSE autoBaseStyle

baseStyleFor(cs) ==
  IF cs = "light" THEN lightBaseStyle
  ELSE IF cs = "dark" THEN darkBaseStyle ELSE autoBaseStyle

boolText(b) == IF b THEN "true" ELSE "false"

\* the ordered (searchValue, replaceValue) table of prepareHTML
replacements(diffHTMLContent, cfg, cs) ==
  << [searchValue |-> TitleMarker, replaceValue |-> cfg.pageTitle],
     [searchValue |-> CssMarker,
      replaceValue |-> <<baseStyleFor(cs), gitHubThemeFor(cs),
                         "<style>", "cssContent", "</style>">>],
     [searchValue |-> JsUiMarker,
      replaceValue |-> <<"<script>", "jsUiContent", "</script>">>],
     [searchValue |-> FileListToggleMarker,
      replaceValue |-> <<"diff2htmlUi.fileListToggle(" \o boolText(cfg.showFilesOpen) \o ");">>],
     [searchValue |-> FileContentToggleMarker,
      replaceValue |-> IF cfg.fileContentToggle
                         THEN <<"diff2htmlUi.fileContentToggle();">> ELSE << >>],
     [searchValue |-> SynchronisedScrollMarker,
      replaceValue |-> IF cfg.synchronisedScroll
                         THEN <<"diff2htmlUi.synchronisedScroll();">> ELSE << >>],
     [searchValue |-> HighlightCodeMarker,
      replaceValue |-> IF cfg.highlightCode
                         THEN <<"diff2htmlUi.highlightCode();">> ELSE << >>],
     [searchValue |-> HeaderMarker, replaceValue |-> cfg.pageHeader],
     [searchValue |-> DiffMarker, replaceValue |-> diffHTMLContent],
     [searchValue |-> CommitMessageMarker, replaceValue |-> cfg.commitMessage] >>

\* [...].reduce((previousValue, replacement) => replaceExactly(...), template)
RECURSIVE reduceReplacements(_, _, _)
reduceReplacements(table, i, previousValue) ==
  IF i > Len(table) THEN previousValue
  ELSE reduceReplacements(table, i + 1,
         replaceExactly(previousValue, table[i].searchValue, table[i].replaceValue))

\* the table without its last entry, the commit message
prepareHTML_NoCommitMessage(diffHTMLContent, cfg, cs, template) ==
  LET table == replacements(diffHTMLContent, cfg, cs)
  IN reduceReplacements(SubSeq(table, 1, Len(table) - 1), 1, template)

prepareHTML(diffHTMLContent, cfg, cs, template) ==
  reduceReplacements(replacements(diffHTMLContent, cfg, cs), 1, template)

----------------------------------------------------------------------------
(* Output Formatter *)

TemplatePaths == {"", "template.html", "missing.html"}
TemplateFiles == {"template.html"}

existsSync(path) == path \in TemplateFiles

\* the external renderer and serializer, opaque in their result
html(diffJson) == <<"d2h-wrapper:" \o diffJson>>
stringify(diffJson) == <<"json:" \o diffJson>>

CanonicalTemplate ==
  <<"<html><title>", TitleMarker, "</title>", CssMarker, JsUiMarker,
    "<script>", FileListToggleMarker, FileContentToggleMarker,
    SynchronisedScrollMarker, HighlightCodeMarker, "</script><h1>",
    HeaderMarker, "</h1>", CommitMessageMarker, DiffMarker, "</html>">>

Templates ==
  {CanonicalTemplate \o extra : extra \in SeqsUpTo({TitleMarker, DiffMarker}, MaxExtra)}
    \cup {<<"<body>", DiffMarker, "</body>">>}

PageTitles == {<<"title">>, <<"$&">>, <<DiffMarker>>}
PageHeaders == {<<"header">>, <<"$1">>}
CommitMessages == SeqsUpTo({"$1", TitleMarker}, MaxValLen)

Configs ==
  [htmlWrapperTemplate : TemplatePaths,
   formatType : {"html", "json"},
   pageTitle : PageTitles,
   pageHeader : PageHeaders,
   commitMessage : CommitMessages,
   showFilesOpen : BOOLEAN,
   fileContentToggle : BOOLEAN,
   synchronisedScroll : BOOLEAN,
   highlightCode : BOOLEAN]

\* the template check made after the parse instead of before it
getOutput_ParseFirst(options, cfg, inp, template, exit0) ==
  IF cfg.htmlWrapperTemplate # "" /\ ~existsSync(cfg.htmlWrapperTemplate)
    THEN [exitCode |-> 4, calls |-> <<"parse">>,
          result |-> "TemplateNotFoundError", output |-> << >>]
  ELSE IF cfg.formatType = "html"
    THEN IF existsSync(cfg.htmlWrapperTemplate)
           THEN [exitCode |-> exit0, calls |-> <<"parse", "html", "prepareHTML">>,
                 result |-> "html",
                 output |-> prepareHTML(html(inp), cfg, options, template)]
           ELSE [exitCode |-> exit0, calls |-> <<"parse", "html", "prepareHTML">>,
                 result |-> "ReadError", output |-> << >>]
  ELSE IF cfg.formatType = "json"
    THEN [exitCode |-> exit0, calls |-> <<"parse", "stringify">>,
          result |-> "json", output |-> stringify(inp)]
  ELSE [exitCode |-> exit0, calls |-> <<"parse">>,
        result |-> "undefined", output |-> << >>]

\* getOutput as a function of its arguments and the exit code on entry:
\* the exit code, the collaborators called in order, the outcome and the text
getOutput(options, cfg, inp, template, exit0) ==
  IF cfg.htmlWrapperTemplate # "" /\ ~existsSync(cfg.htmlWrapperTemplate)
    THEN [exitCode |-> 4, calls |-> << >>,
          result |-> "TemplateNotFoundError", output |-> << >>]
  ELSE IF cfg.formatType = "html"
    THEN IF existsSync(cfg.htmlWrapperTemplate)
           THEN [exitCode |-> exit0, calls |-> <<"parse", "html", "prepareHTML">>,
                 result |-> "html",
                 output |-> prepareHTML(html(inp), cfg, options, template)]
           ELSE [exitCode |-> exit0, calls |-> <<"parse", "html", "prepareHTML">>,
                 result |-> "ReadError", output |-> << >>]
  ELSE IF cfg.formatType = "json"
    THEN [exitCode |-> exit0, calls |-> <<"parse", "stringify">>,
          result |-> "json", output |-> stringify(inp)]
  ELSE [exitCode |-> exit0, calls |-> <<"parse">>,
        result |-> "undefined", output |-> << >>]

GetOutput ==
  /\ outPc = "start"
  /\ LET r == getOutput(colorScheme, config, input, templateDoc, exitCode)
     IN /\ exitCode' = r.exitCode
        /\ calls' = r.calls
        /\ outResult' = r.result
        /\ output' = r.output
  /\ outPc' = "done"
  /\ UNCHANGED <<colorScheme, config, templateDoc, input>>
  /\ UNCHANGED <<inVars, dVars>>

----------------------------------------------------------------------------
(* Remote Publisher *)

\* parsed JSON bodies: objects with any of the fields id, error, other, and
\* the non-object bodies null, a number, a string
ObjectBodies ==
  UNION {[K -> {"abc123", "too large"}] : K \in SUBSET {"id", "error", "other"}}

Responses ==
  [kind : {"object"}, fields : ObjectBodies]
    \cup {[kind |-> k, fields |-> << >>] : k \in {"null", "number", "string"}}

\* obj.key of the runtime: a TypeError on null, undefined where the key is absent
prop(obj, key) ==
  IF obj.kind = "null" THEN [t |-> "TypeError"]
  ELSE IF obj.kind = "object" /\ key \in DOMAIN obj.fields
    THEN [t |-> "value", v |-> obj.fields[key]]
  ELSE [t |-> "undefined"]

isCreateDiffResponse(obj) == prop(obj, "id").t # "undefined"

isApiError(obj) == prop(obj, "error").t # "undefined"

\* JSON.stringify(response, null, 2), one token per body; a message is a
\* sequence of tokens, literal text being <<"text", s>>
bodyDump(obj) == <<"JSON", obj.kind, obj.fields>>

diffUrl(id) == "https://diffy.org/diff/" \o id

\* the two output modes not exclusive: pbcopy opens the browser as well
postToDiffyResume_PbcopyOpens(resp, mode) ==
  IF prop(resp, "id").t = "TypeError"
    THEN [effects |-> << >>, result |-> [t |-> "throw", kind |-> "TypeError"]]
  ELSE IF ~isCreateDiffResponse(resp)
    THEN IF isApiError(resp)
           THEN [effects |-> << >>,
                 result |-> [t |-> "throw", kind |-> "Error",
                             message |-> << <<"text", resp.fields["error"]>> >>]]
           ELSE [effects |-> << >>,
                 result |-> [t |-> "throw", kind |-> "Error",
                             message |-> << <<"text", "Could not find 'id' of created diff in the response json.">>,
                                            bodyDump(resp) >>]]
  ELSE LET url == diffUrl(resp.fields["id"])
           printed == << <<"print", "Link powered by https://diffy.org">>,
                         <<"print", url>>, <<"open", url>> >>
       IN [effects |-> IF mode = "pbcopy" THEN Append(printed, <<"clipboard", url>>)
                       ELSE IF mode = "browser" THEN printed
                       ELSE SubSeq(printed, 1, 2),
           result |-> [t |-> "return", url |-> url]]

\* postToDiffy from the resolution of put() on: the side effects in order and
\* the settlement of the returned promise
postToDiffyResume(resp, mode) ==
  IF prop(resp, "id").t = "TypeError"
    THEN [effects |-> << >>, result |-> [t |-> "throw", kind |-> "TypeError"]]
  ELSE IF ~isCreateDiffResponse(resp)
    THEN IF isApiError(resp)
           THEN [effects |-> << >>,
                 result |-> [t |-> "throw", kind |-> "Error",
                             message |-> << <<"text", resp.fields["error"]>> >>]]
           ELSE [effects |-> << >>,
                 result |-> [t |-> "throw", kind |-> "Error",
                             message |-> << <<"text", "Could not find 'id' of created diff in the response json.">>,
                                            bodyDump(resp) >>]]
  ELSE LET url == diffUrl(resp.fields["id"])
           printed == << <<"print", "Link powered by https://diffy.org">>,
                         <<"print", url>> >>
       IN [effects |-> IF mode = "browser" THEN Append(printed, <<"open", url>>)
                       ELSE IF mode = "pbcopy" THEN Append(printed, <<"clipboard", url>>)
                       ELSE printed,
           result |-> [t |-> "return", url |-> url]]

\* const response = await put(...): the request is issued and the call suspends
PostToDiffyPut ==
  /\ dPc = "start"
  /\ dPc' = "awaiting"
  /\ UNCHANGED <<diff, diffyOutput, response, effects, dResult>>
  /\ UNCHANGED <<inVars, outVars>>

\* put() resolves with a parsed body and the call runs to its end
PostToDiffyResolved ==
  /\ dPc = "awaiting"
  /\ \E resp \in Responses :
       LET r == postToDiffyResume(resp, diffyOutput)
       IN /\ response' = resp
          /\ effects' = effects \o r.effects
          /\ dResult' = r.result
  /\ dPc' = "done"
  /\ UNCHANGED <<diff, diffyOutput>>
  /\ UNCHANGED <<inVars, outVars>>

\* put() rejects and the rejection propagates
PostToDiffyRejected ==
  /\ dPc = "awaiting"
  /\ dResult' = [t |-> "throw", kind |-> "HttpError"]
  /\ dPc' = "done"
  /\ UNCHANGED <<diff, diffyOutput, response, effects>>
  /\ UNCHANGED <<inVars, outVars>>

----------------------------------------------------------------------------
(* Specifications *)

\* one call of getInput; the other components at rest
InputInit ==
  /\ inputType \in {"file", "stdin", "command"}
  /\ inputArgs \in SeqsUpTo(ArgTokens, MaxArgs)
  /\ ignore \in SeqsUpTo(Paths, MaxIgnore)
  /\ gitDiffArgs = << >>
  /\ inPc = "start"
  /\ inResult = "none"
  /\ colorScheme = "undefined"
  /\ config = [htmlWrapperTemplate |-> "", formatType |-> "json",
               pageTitle |-> << >>, pageHeader |-> << >>, commitMessage |-> << >>,
               showFilesOpen |-> FALSE, fileContentToggle |-> FALSE,
               synchronisedScroll |-> FALSE, highlightCode |-> FALSE]
  /\ templateDoc = << >>
  /\ input = ""
  /\ outPc = "idle"
  /\ exitCode = 0
  /\ calls = << >>
  /\ outResult = "none"
  /\ output = << >>
  /\ diff = ""
  /\ diffyOutput = "print"
  /\ response = [kind |-> "none", fields |-> << >>]
  /\ dPc = "idle"
  /\ effects = << >>
  /\ dResult = [t |-> "none"]

\* one call of getOutput; the other components at rest
OutputInit ==
  /\ inputType = "stdin"
  /\ inputArgs = << >>
  /\ ignore = << >>
  /\ gitDiffArgs = << >>
  /\ inPc = "idle"
  /\ inResult = "none"
  /\ colorScheme \in {"light", "dark", "auto", "undefined"}
  /\ config \in Configs
  /\ templateDoc \in Templates
  /\ input \in {"empty", "added-file"}
  /\ outPc = "start"
  /\ exitCode = 0
  /\ calls = << >>
  /\ outResult = "none"
  /\ output = << >>
  /\ diff = ""
  /\ diffyOutput = "print"
  /\ response = [kind |-> "none", fields |-> << >>]
  /\ dPc = "idle"
  /\ effects = << >>
  /\ dResult = [t |-> "none"]

\* one call of postToDiffy; the other components at rest
DiffyInit ==
  /\ inputType = "stdin"
  /\ inputArgs = << >>
  /\ ignore = << >>
  /\ gitDiffArgs = << >>
  /\ inPc = "idle"
  /\ inResult = "none"
  /\ colorScheme = "undefined"
  /\ config = [htmlWrapperTemplate |-> "", formatType |-> "json",
               pageTitle |-> << >>, pageHeader |-> << >>, commitMessage |-> << >>,
               showFilesOpen |-> FALSE, fileContentToggle |-> FALSE,
               synchronisedScroll |-> FALSE, highlightCode |-> FALSE]
  /\ templateDoc = << >>
  /\ input = ""
  /\ outPc = "idle"
  /\ exitCode = 0
  /\ calls = << >>
  /\ outResult = "none"
  /\ output = << >>
  /\ diff \in {"empty", "added-file"}
  /\ diffyOutput \in {"browser", "pbcopy", "print"}
  /\ response = [kind |-> "none", fields |-> << >>]
  /\ dPc = "start"
  /\ effects = << >>
  /\ dResult = [t |-> "none"]

InNext == GetInputFile \/ GetInputStdin \/ runGitDiff

SpecInput == InputInit /\ [][InNext]_vars

OutNext == GetOutput

SpecOutput == OutputInit /\ [][OutNext]_vars

DNext == PostToDiffyPut \/ PostToDiffyResolved \/ PostToDiffyRejected

SpecDiffy == DiffyInit /\ [][DNext]_vars


----------------------------------------------------------------------------
(* Properties of the Git Argument Builder *)

NoColor == "--no-color"
Separator == "--"

Built == inPc = "done" /\ inputType = "command"

LastN(s, n) == SubSeq(s, Len(s) - n + 1, Len(s))

ExcludeEntries(ign) == [i \in 1..Len(ign) |-> ":(exclude)" \o ign[i]]

\* C1 as stated: whenever the caller's arguments contain --no-color, however
\* often, the built vector contains it exactly once.
C1_ExactlyOneNoColor ==
  (Built /\ includes(inputArgs, NoColor)) => Count(gitDiffArgs, NoColor) = 1

\* C1 as amended: the builder adds --no-color exactly when the caller's
\* arguments lack it, so the built vector holds it once in that case and
\* otherwise exactly as often as the caller's arguments do (once for a caller
\* list that holds it once).
C1_NoColorNotDuplicated ==
  Built =>
    Count(gitDiffArgs, NoColor) =
      (IF Count(inputArgs, NoColor) = 0 THEN 1 ELSE Count(inputArgs, NoColor))

C1_Witness ==
  /\ Built
  /\ Count(inputArgs, NoColor) = 1
  /\ inputArgs[1] # NoColor
  /\ Len(ignore) > 0
  /\ Count(gitDiffArgs, NoColor) = 1

\* C2 as stated: an empty caller list gives --no-color -M -C HEAD, and for
\* every non-empty caller list none of -M, -C, HEAD is in the built vector.
C2_DefaultsAbsent ==
  Built =>
    /\ Len(inputArgs) = 0 => SubSeq(gitDiffArgs, 2, 5) = <<NoColor, "-M", "-C", "HEAD">>
    /\ Len(inputArgs) > 0 =>
         \A i \in 1..Len(gitDiffArgs) : gitDiffArgs[i] \notin {"-M", "-C", "HEAD"}

\* C2 as amended: an empty caller list gives --no-color -M -C HEAD, and for
\* every non-empty caller list the builder adds no default, so -M, -C and HEAD
\* occur in the built vector exactly as often as in the caller's own arguments
\* (also when --no-color is not among them).
C2_DefaultsIffEmpty ==
  Built =>
    /\ Len(inputArgs) = 0 => SubSeq(gitDiffArgs, 2, 5) = <<NoColor, "-M", "-C", "HEAD">>
    /\ Len(inputArgs) > 0 =>
         \A d \in {"-M", "-C", "HEAD"} : Count(gitDiffArgs, d) = Count(inputArgs, d)

C2_Witness ==
  /\ Built
  /\ Len(inputArgs) > 0
  /\ ~includes(inputArgs, NoColor)
  /\ \A d \in {"-M", "-C", "HEAD"} : ~includes(gitDiffArgs, d)

\* C3 as stated: with a non-empty exclusion list the built vector contains --
\* exactly once and one :(exclude)<path> entry per path, in order.
C3_SeparatorExactlyOnce ==
  (Built /\ Len(ignore) > 0) =>
    /\ Count(gitDiffArgs, Separator) = 1
    /\ LastN(gitDiffArgs, Len(ignore)) = ExcludeEntries(ignore)

\* C3 as amended: with a non-empty exclusion list the built vector contains
\* -- (the builder appends one exactly when the caller's arguments have none,
\* so it occurs once then and otherwise as often as in the caller's
\* arguments), and it ends with one :(exclude)<path> entry per path, in order.
C3_SeparatorPresent ==
  (Built /\ Len(ignore) > 0) =>
    /\ Count(gitDiffArgs, Separator) =
         (IF Count(inputArgs, Separator) = 0 THEN 1 ELSE Count(inputArgs, Separator))
    /\ LastN(gitDiffArgs, Len(ignore)) = ExcludeEntries(ignore)

C3_Witness ==
  /\ Built
  /\ Len(ignore) = 2
  /\ ignore[1] # ignore[2]
  /\ ~includes(inputArgs, Separator)
  /\ Len(inputArgs) > 0
  /\ Count(gitDiffArgs, Separator) = 1

\* The shape diff --no-color [-M -C HEAD | <caller args>] [-- :(exclude)<path> ...]
ShapeOK(res, args, ign) ==
  LET k == IF includes(args, NoColor) THEN 1 ELSE 2
      blockLen == IF Len(args) = 0 THEN 3 ELSE Len(args)
      firstExclude == Len(res) - Len(ign) + 1
  IN /\ Len(res) >= k + blockLen + Len(ign)
     /\ res[1] = "diff"
     /\ includes(res, NoColor)
     /\ k = 2 => res[2] = NoColor
     /\ SubSeq(res, k + 1, k + blockLen) = (IF Len(args) = 0 THEN <<"-M", "-C", "HEAD">> ELSE args)
     /\ Len(ign) = 0 => Len(res) = k + blockLen
     /\ Len(ign) > 0 =>
          /\ Len(res) <= k + blockLen + 1 + Len(ign)
          /\ LastN(res, Len(ign)) = ExcludeEntries(ign)
          /\ firstExclude > k + blockLen
          /\ \E j \in (k + 1)..(firstExclude - 1) : res[j] = Separator

----------------------------------------------------------------------------
(* Properties of the Template Compositor and the Output Formatter *)

HtmlDone == outPc = "done" /\ outResult = "html"

\* v occurs in doc as a contiguous run of tokens
Contains(doc, v) ==
  \E i \in 0..(Len(doc) - Len(v)) : SubSeq(doc, i + 1, i + Len(v)) = v

AllTenMarkers(doc) == \A m \in Markers : includes(doc, m)

AllTenMarkersOnce(doc) == \A m \in Markers : Count(doc, m) = 1

NoMarkerIn(doc) == \A i \in 1..Len(doc) : doc[i] \notin Markers

SuppliedValuesIn(doc) ==
  /\ Contains(doc, config.pageTitle)
  /\ Contains(doc, config.pageHeader)
  /\ Contains(doc, config.commitMessage)
  /\ Contains(doc, <<"d2h-wrapper:" \o input>>)
  /\ Contains(doc, <<"<style>", "cssContent", "</style>">>)
  /\ Contains(doc, <<"<script>", "jsUiContent", "</script>">>)
  /\ Contains(doc, <<IF config.showFilesOpen THEN "diff2htmlUi.fileListToggle(true);"
                                              ELSE "diff2htmlUi.fileListToggle(false);">>)
  /\ config.fileContentToggle <=> includes(doc, "diff2htmlUi.fileContentToggle();")
  /\ config.synchronisedScroll <=> includes(doc, "diff2htmlUi.synchronisedScroll();")
  /\ config.highlightCode <=> includes(doc, "diff2htmlUi.highlightCode();")

SuppliedValuesMarkerFree ==
  /\ NoMarkerIn(config.pageTitle)
  /\ NoMarkerIn(config.pageHeader)
  /\ NoMarkerIn(config.commitMessage)

\* C4 as stated: for a template with all ten markers and any replacement
\* values, the document has none of the marker literals and every supplied
\* value verbatim.
C4_RoundTripAnyValues ==
  (HtmlDone /\ AllTenMarkers(templateDoc)) =>
    (NoMarkerIn(output) /\ SuppliedValuesIn(output))

\* C4 as amended: for a template with each of the ten markers exactly once
\* and replacement values that hold no marker string themselves, the document
\* has none of the marker literals and every supplied value verbatim, values
\* with pattern-substitution syntax ($&, $1) included.
C4_RoundTrip ==
  (HtmlDone /\ AllTenMarkersOnce(templateDoc) /\ SuppliedValuesMarkerFree) =>
    (NoMarkerIn(output) /\ SuppliedValuesIn(output))

C4_Witness ==
  /\ HtmlDone
  /\ AllTenMarkersOnce(templateDoc)
  /\ config.pageTitle = <<"$&">>
  /\ config.pageHeader = <<"$1">>
  /\ config.commitMessage = <<"$1">>
  /\ config.fileContentToggle /\ ~config.highlightCode
  /\ Contains(output, <<"<html><title>", "$&", "</title>">>)

\* the replacement value the table holds for a marker
ValueOf(m) ==
  LET table == replacements(html(input), config, colorScheme)
      i == CHOOSE k \in 1..Len(table) : table[k].searchValue = m
  IN table[i].replaceValue

\* the template with the first occurrence of every marker replaced by its
\* value in one pass, inserted text never looked at again
RECURSIVE SinglePass(_, _)
SinglePass(doc, i) ==
  IF i > Len(doc) THEN << >>
  ELSE (IF doc[i] \in Markers /\ \A j \in 1..(i - 1) : doc[j] # doc[i]
          THEN ValueOf(doc[i]) ELSE <<doc[i]>>) \o SinglePass(doc, i + 1)

\* C5: inserted text is never expanded again; the document is the template
\* with each marker replaced where the template holds it, so a marker string
\* inside a replacement value stays where and as often as the value holds it.
C5_NeverReExpanded ==
  HtmlDone => output = SinglePass(templateDoc, 1)

MissingTemplate ==
  config.htmlWrapperTemplate # "" /\ config.htmlWrapperTemplate \notin TemplateFiles

\* C6: for html and json alike, a configured template path that is not on
\* disk sets the exit code to 4 and throws the template-not-found error with
\* neither the parser, the renderer nor the compositor called and no output;
\* on every other path the exit code is not 4.
C6_MissingTemplateExit4 ==
  outPc = "done" =>
    /\ MissingTemplate =>
         /\ exitCode = 4
         /\ outResult = "TemplateNotFoundError"
         /\ calls = << >>
         /\ output = << >>
    /\ ~MissingTemplate =>
         /\ exitCode # 4
         /\ outResult # "TemplateNotFoundError"
         /\ calls # << >> /\ calls[1] = "parse"

C6_Witness ==
  /\ outPc = "done"
  /\ config.htmlWrapperTemplate = "missing.html"
  /\ config.formatType = "json"
  /\ exitCode = 4
  /\ outResult = "TemplateNotFoundError"

SchemeOf(cs) == IF cs \in {"light", "dark"} THEN cs ELSE "auto"

ThemeFragments == [light |-> "lightGitHubTheme", dark |-> "darkGitHubTheme", auto |-> "autoGitHubTheme"]
StyleFragments == [light |-> "lightBaseStyle", dark |-> "darkBaseStyle", auto |-> "autoBaseStyle"]

\* C9: the base-style block and the theme link put in place of the CSS marker
\* belong to the same colour scheme: light for light, dark for dark, auto for
\* every other value, an unset colorScheme included.
C9_ThemeMatchesBaseStyle ==
  (HtmlDone /\ includes(templateDoc, CssMarker)) =>
    \A s \in {"light", "dark", "auto"} :
      /\ includes(output, StyleFragments[s]) <=> s = SchemeOf(colorScheme)
      /\ includes(output, ThemeFragments[s]) <=> s = SchemeOf(colorScheme)
      /\ s = SchemeOf(colorScheme) =>
           Contains(output, <<StyleFragments[s], ThemeFragments[s], "<style>">>)

C9_Witness ==
  /\ HtmlDone
  /\ colorScheme = "undefined"
  /\ Contains(output, <<"autoBaseStyle", "autoGitHubTheme">>)

----------------------------------------------------------------------------
(* Properties of the Remote Publisher *)

HasField(resp, key) == resp.kind = "object" /\ key \in DOMAIN resp.fields

Settled == dPc = "done" /\ response.kind # "none"

\* C7: every parsed body falls in exactly one of three outcomes: with an id,
\* success with https://diffy.org/diff/<id>; else with an error field, a
\* throw whose message is that field; else a throw whose message holds the
\* stringified body.
C7_ThreeOutcomes ==
  Settled =>
    IF HasField(response, "id")
      THEN dResult = [t |-> "return", url |-> "https://diffy.org/diff/" \o response.fields["id"]]
    ELSE IF HasField(response, "error")
      THEN dResult = [t |-> "throw", kind |-> "Error", message |-> << <<"text", response.fields["error"]>> >>]
    ELSE /\ dResult.t = "throw"
         /\ dResult.kind = "Error"
         /\ includes(dResult.message, <<"JSON", response.kind, response.fields>>)

ExpectedEffects(mode, url) ==
  << <<"print", "Link powered by https://diffy.org">>, <<"print", url>> >>
    \o (IF mode = "browser" THEN << <<"open", url>> >>
        ELSE IF mode = "pbcopy" THEN << <<"clipboard", url>> >>
        ELSE << >>)

\* C8: on success (the body has an id) the credit line is printed, then the
\* URL, then the one action of the mode (browser: open, pbcopy: clipboard,
\* otherwise none), and the URL is returned whatever the mode; on failure
\* nothing is printed, opened or copied.
C8_SuccessEffects ==
  dPc = "done" =>
    IF HasField(response, "id")
      THEN /\ dResult.t = "return"
           /\ dResult.url = "https://diffy.org/diff/" \o response.fields["id"]
           /\ effects = ExpectedEffects(diffyOutput, dResult.url)
      ELSE /\ dResult.t = "throw"
           /\ effects = << >>

C8_Witness ==
  /\ dPc = "done"
  /\ diffyOutput = "pbcopy"
  /\ dResult.t = "return"
  /\ Len(effects) = 3
  /\ effects[3][1] = "clipboard"


====
